---- MODULE Spec2Model ----
(***************************************************************************)
(* Verification service (document upload / status aggregation / deletion)  *)
(* and restaurant settings page of the unichow application, modelled over  *)
(* one restaurant's Firestore collection                                   *)
(* restaurants/{restaurantId}/verification, the storage bucket, and the    *)
(* users/{uid} record of the signed-in owner.                              *)
(***************************************************************************)
EXTENDS Integers, Sequences, FiniteSets, TLC

\* ------------------------------------------------------------- bounds ----
MaxDocs == 4      \* document ids available to the collection
MaxClock == 1     \* readings the wall clock gives to settings submits
MaxRaceDocs == 0  \* documents stored before two calls overlap
CallsPerCaller == 1 \* service calls each overlapping caller makes

\* ------------------------------------------------------ data model -------
StatusId == 0     \* the path segment "status" of the status singleton

DocIds == 1..MaxDocs

RequiredTypes == <<"business_license", "food_permit", "identity">>

RequiredSet == {RequiredTypes[i] : i \in 1..Len(RequiredTypes)}

AllTypes == RequiredTypes \o <<"other">>

DocTypes == {AllTypes[i] : i \in 1..Len(AllTypes)}

TypeRank(t) == CHOOSE i \in 1..Len(AllTypes) : AllTypes[i] = t

AllStatuses == <<"pending", "approved", "rejected">>

DocStatuses == {AllStatuses[i] : i \in 1..Len(AllStatuses)}

StatusRank(st) == CHOOSE i \in 1..Len(AllStatuses) : AllStatuses[i] = st

\* position of a (type, status) pair in the listing of seed documents
ShapeRank(shape) == TypeRank(shape[1]) * Len(AllStatuses) + StatusRank(shape[2])

NoError == "none"

VARIABLES
    now,            \* reading of Date.now() / new Date()
    verification,   \* the Firestore collection: path segment -> record
    blobs,          \* keys present in the storage bucket
    last,           \* the last completed service call, with the state before it
    calls,          \* overlapping callers: program counter and locals
    userDoc,        \* users/{uid}: NoDoc or a record
    page            \* the settings page component state

vars == <<now, verification, blobs, last, calls, userDoc, page>>

\* ------------------------------------------------- pure helpers ----------
\* faulty variant: the filter lets every record of the collection through
IsDocument_Always(rec) == TRUE

IsDocument(rec) == "type" \in DOMAIN rec

\* snapshot.docs.map(...).filter(doc => doc.type), in document-id order
RECURSIVE DocsFrom(_, _)
DocsFrom(coll, i) ==
    IF i > MaxDocs THEN <<>>
    ELSE IF i \in DOMAIN coll /\ IsDocument(coll[i])
         THEN <<coll[i]>> \o DocsFrom(coll, i + 1)
         ELSE DocsFrom(coll, i + 1)

GetDocuments(coll) == DocsFrom(coll, StatusId)

\* pendingDocs.delete(doc.type) for every approved document
RECURSIVE PendingAfter(_, _)
PendingAfter(pending, documents) ==
    IF documents = <<>> THEN pending
    ELSE LET d == Head(documents)
         IN PendingAfter(IF d.status = "approved" THEN pending \ {d.type} ELSE pending,
                         Tail(documents))

\* faulty variant: each rejected type is listed once
RejectedOf_Dedup(documents) ==
    SelectSeq(AllTypes, LAMBDA t : \E i \in 1..Len(documents) :
                                      documents[i].type = t /\ documents[i].status = "rejected")

\* rejectedDocs.push(doc.type) for every rejected document
RECURSIVE RejectedOf(_)
RejectedOf(documents) ==
    IF documents = <<>> THEN <<>>
    ELSE LET d == Head(documents)
         IN (IF d.status = "rejected" THEN <<d.type>> ELSE <<>>) \o RejectedOf(Tail(documents))

\* Array.from(pendingDocs): insertion order of the Set
ArrayFrom(pending) == SelectSeq(RequiredTypes, LAMBDA t : t \in pending)

\* faulty variant: rejected documents do not block verification
IsVerifiedOf_IgnoreRejected(pendingArr, rejectedArr) == Len(pendingArr) = 0

IsVerifiedOf(pendingArr, rejectedArr) == Len(pendingArr) = 0 /\ Len(rejectedArr) = 0

ComputeStatus(documents, t) ==
    LET pendingArr == ArrayFrom(PendingAfter(RequiredSet, documents))
        rejectedArr == RejectedOf(documents)
    IN [isVerified |-> IsVerifiedOf(pendingArr, rejectedArr),
        documentsSubmitted |-> Len(documents) > 0,
        pendingDocuments |-> pendingArr,
        rejectedDocuments |-> rejectedArr,
        lastUpdated |-> t]

\* faulty variant: the default claims the restaurant verified
DefaultStatus_Verified(t) ==
    [isVerified |-> TRUE,
     documentsSubmitted |-> FALSE,
     pendingDocuments |-> <<"business_license", "food_permit", "identity">>,
     rejectedDocuments |-> <<>>,
     lastUpdated |-> t]

DefaultStatus(t) ==
    [isVerified |-> FALSE,
     documentsSubmitted |-> FALSE,
     pendingDocuments |-> <<"business_license", "food_permit", "identity">>,
     rejectedDocuments |-> <<>>,
     lastUpdated |-> t]

StorageKey(type, t) == <<type, t>>

NewDocument(id, type, fileUrl) ==
    [id |-> id, type |-> type, status |-> "pending", fileUrl |-> fileUrl]

\* setDoc(ref, data): create or overwrite the record at ref
SetDoc(coll, id, data) ==
    [k \in DOMAIN coll \cup {id} |-> IF k = id THEN data ELSE coll[k]]

\* faulty variant: the record deletion is lost
DeleteDoc_Keep(coll, id) == coll

\* deleteDoc(ref): succeeds whether or not the record exists
DeleteDoc(coll, id) == [k \in DOMAIN coll \ {id} |-> coll[k]]

HasStatus(coll) == StatusId \in DOMAIN coll

Pre == [verification |-> verification, blobs |-> blobs, writer |-> last.op]

Done(op, arg, error, result) ==
    [op |-> op, arg |-> arg, error |-> error, result |-> result, pre |-> Pre]

NoCall == [op |-> "none", arg |-> 0, error |-> NoError, result |-> 0,
           pre |-> [verification |-> <<>>, blobs |-> {}, writer |-> "none"]]

NoDoc == [exists |-> FALSE]

FormFields == {"restaurantName", "description", "cuisine", "openingHours",
               "closingHours", "address", "phone"}

\* useState initial values of the settings page
InitialPage ==
    [loading |-> TRUE, saving |-> FALSE, error |-> "", success |-> "",
     settings |-> [f \in FormFields |-> ""]]

SettingsUnused == UNCHANGED <<userDoc, page>>

\* two sessions of the same restaurant (a double submit, two tabs)
Callers == {"a", "b"}

IdleCall(n) == [pc |-> "idle", op |-> "none", type |-> "none", document |-> 0,
                key |-> 0, snapshot |-> <<>>, completed |-> n]

\* ------------------------------------------------ sequential calls -------
\* One service call, run to completion, from a state the restaurant can be in.
Idle == last.op = "none"

UploadFailures == {"uploadBytes", "getDownloadURL", "setDoc", "getDocs", "setStatus", NoError}

UploadDocument(type, id, fail) ==
    LET key == StorageKey(type, now)
        verificationDoc == NewDocument(id, type, key)
        withDoc == SetDoc(verification, id, verificationDoc)
        st == ComputeStatus(GetDocuments(withDoc), now)
    IN /\ Idle
       /\ id \notin DOMAIN verification
       /\ blobs' = IF fail = "uploadBytes" THEN blobs ELSE blobs \cup {key}
       /\ verification' =
            CASE fail \in {"uploadBytes", "getDownloadURL", "setDoc"} -> verification
              [] fail \in {"getDocs", "setStatus"} -> withDoc
              [] OTHER -> SetDoc(withDoc, StatusId, st)
       /\ last' = Done("uploadDocument", type, fail,
                       IF fail = NoError THEN verificationDoc ELSE 0)
       /\ UNCHANGED <<now, calls>>
       /\ SettingsUnused

\* faulty variant: the default is returned but never persisted
GetVerificationStatus_NoPersist(fail) ==
    /\ Idle
    /\ fail = "setDoc" => ~HasStatus(verification)
    /\ verification' = verification
    /\ last' = Done("getVerificationStatus", 0, fail,
                    IF fail # NoError THEN 0
                    ELSE IF HasStatus(verification) THEN verification[StatusId]
                    ELSE DefaultStatus(now))
    /\ UNCHANGED <<now, blobs, calls>>
    /\ SettingsUnused

GetVerificationStatus(fail) ==
    /\ Idle
    /\ fail = "setDoc" => ~HasStatus(verification)
    /\ verification' =
         IF fail = NoError /\ ~HasStatus(verification)
         THEN SetDoc(verification, StatusId, DefaultStatus(now))
         ELSE verification
    /\ last' = Done("getVerificationStatus", 0, fail,
                    IF fail # NoError THEN 0
                    ELSE IF HasStatus(verification) THEN verification[StatusId]
                    ELSE DefaultStatus(now))
    /\ UNCHANGED <<now, blobs, calls>>
    /\ SettingsUnused

GetDocumentsCall(fail) ==
    /\ Idle
    /\ last' = Done("getDocuments", 0, fail,
                    IF fail = NoError THEN GetDocuments(verification) ELSE 0)
    /\ UNCHANGED <<now, verification, blobs, calls>>
    /\ SettingsUnused

UpdateVerificationStatus(fail) ==
    LET st == ComputeStatus(GetDocuments(verification), now)
    IN /\ Idle
       /\ verification' = IF fail = NoError THEN SetDoc(verification, StatusId, st)
                          ELSE verification
       /\ last' = Done("updateVerificationStatus", 0, fail,
                       IF fail = NoError THEN st ELSE 0)
       /\ UNCHANGED <<now, blobs, calls>>
       /\ SettingsUnused

DeleteFailures == {"deleteObject", "deleteDoc", "getDocs", "setStatus", NoError}

\* faulty variant: the record is deleted before the blob
DeleteDocument_RecordFirst(document, fail) ==
    LET without == DeleteDoc(verification, document.id)
        st == ComputeStatus(GetDocuments(without), now)
    IN /\ Idle
       /\ document.fileUrl \notin blobs => fail \in {"deleteDoc", "deleteObject"}
       /\ blobs' = IF fail \in {"deleteDoc", "deleteObject"} THEN blobs
                   ELSE blobs \ {document.fileUrl}
       /\ verification' =
            CASE fail = "deleteDoc" -> verification
              [] fail \in {"deleteObject", "getDocs", "setStatus"} -> without
              [] OTHER -> SetDoc(without, StatusId, st)
       /\ last' = Done("deleteDocument", document.id, fail, 0)
       /\ UNCHANGED <<now, calls>>
       /\ SettingsUnused

DeleteDocument(document, fail) ==
    LET without == DeleteDoc(verification, document.id)
        st == ComputeStatus(GetDocuments(without), now)
    IN /\ Idle
       /\ document.fileUrl \notin blobs => fail = "deleteObject"
       /\ blobs' = IF fail = "deleteObject" THEN blobs ELSE blobs \ {document.fileUrl}
       /\ verification' =
            CASE fail \in {"deleteObject", "deleteDoc"} -> verification
              [] fail \in {"getDocs", "setStatus"} -> without
              [] OTHER -> SetDoc(without, StatusId, st)
       /\ last' = Done("deleteDocument", document.id, fail, 0)
       /\ UNCHANGED <<now, calls>>
       /\ SettingsUnused

\* the external reviewer decides a document
Review(id, decision) ==
    /\ Idle
    /\ id \in DOMAIN verification
    /\ IsDocument(verification[id])
    /\ verification[id].status # decision
    /\ verification' = [verification EXCEPT ![id].status = decision]
    /\ last' = Done("review", id, NoError, 0)
    /\ UNCHANGED <<now, blobs, calls>>
    /\ SettingsUnused

\* ------------------------------------------------------- seed states -----
\* Documents uploaded earlier (one per millisecond before the clock's start),
\* decided or not by the reviewer, listed by type and status along the document
\* ids (only the order of the types reaches rejectedDocuments); the
\* status singleton is the last recomputation or, for a restaurant without
\* documents, not yet written; after a failed recomputation (afterFailure) it may
\* also be missing or still the lazy default.
SeedShapes(k) ==
    {f \in [1..k -> DocTypes \X DocStatuses] :
        \A i \in 1..k : i < k => ShapeRank(f[i]) <= ShapeRank(f[i + 1])}

SeedDoc(i, shape) ==
    [id |-> i, type |-> shape[1], status |-> shape[2],
     fileUrl |-> StorageKey(shape[1], i - MaxDocs - 1)]

SeedCollection(k, f) == [i \in 1..k |-> SeedDoc(i, f[i])]

SeedBlobs(coll) == {coll[i].fileUrl : i \in DOMAIN coll}

InitCommon ==
    /\ last = NoCall
    /\ calls = [p \in Callers |-> IdleCall(0)]
    /\ userDoc = NoDoc
    /\ page = InitialPage

Seeded(maxDocs, afterFailure) ==
    \E k \in 0..maxDocs : \E f \in SeedShapes(k) :
          LET docs == SeedCollection(k, f)
          IN /\ blobs = SeedBlobs(docs)
             /\ \/ (k = 0 \/ afterFailure) /\ verification = docs
                \/ verification = SetDoc(docs, StatusId, ComputeStatus(GetDocuments(docs), 0))
                \/ /\ k > 0 /\ afterFailure
                   /\ verification = SetDoc(docs, StatusId, DefaultStatus(0))

Init ==
    /\ InitCommon
    /\ now = 1
    /\ Seeded(MaxDocs, TRUE)

Next ==
    \/ \E type \in DocTypes, id \in DocIds, fail \in UploadFailures :
          UploadDocument(type, id, fail)
    \/ \E fail \in {"getDoc", "setDoc", NoError} : GetVerificationStatus(fail)
    \/ \E fail \in {"getDocs", NoError} : GetDocumentsCall(fail)
    \/ \E fail \in {"getDocs", "setDoc", NoError} : UpdateVerificationStatus(fail)
    \/ \E id \in DocIds, fail \in DeleteFailures :
          /\ id \in DOMAIN verification
          /\ DeleteDocument(verification[id], fail)
    \/ \E id \in DocIds, decision \in {"approved", "rejected"} : Review(id, decision)

Spec == Init /\ [][Next]_vars

\* ------------------------------------------------ overlapping calls ------
\* Each await of a service method is one step; another caller may run between
\* two steps.  Every external call succeeds here, each caller makes one call, and
\* the calls run within one reading of the clock.
AllIdle == \A p \in Callers : calls[p].pc = "idle"

CanBegin(p) == calls[p].pc = "idle" /\ calls[p].completed < CallsPerCaller

Goto(p, pc) == calls' = [calls EXCEPT ![p].pc = pc]

Finish(p, op) ==
    calls' = [calls EXCEPT ![p] = [IdleCall(calls[p].completed + 1) EXCEPT !.op = op]]

\* the types the overlapping callers upload: one required, one not
RaceTypes == {"identity", "other"}

FreshId == CHOOSE id \in DocIds :
              id \notin DOMAIN verification /\ \A j \in DocIds : j < id => j \in DOMAIN verification

VerificationUnused == UNCHANGED <<verification, blobs, last>>

\* uploadDocument: uploadBytes + getDownloadURL
BeginUpload(p, type) ==
    /\ CanBegin(p)
    /\ \E id \in DocIds : id \notin DOMAIN verification
    /\ blobs' = blobs \cup {StorageKey(type, now)}
    /\ calls' = [calls EXCEPT ![p] = [@ EXCEPT !.pc = "setRecord", !.op = "uploadDocument",
                                               !.type = type, !.key = StorageKey(type, now)]]
    /\ UNCHANGED <<now, verification, last>>
    /\ SettingsUnused

\* uploadDocument: setDoc(docRef, verificationDoc)
UploadSetRecord(p) ==
    /\ calls[p].pc = "setRecord"
    /\ \E id \in DocIds : id \notin DOMAIN verification
    /\ verification' = SetDoc(verification, FreshId,
                              NewDocument(FreshId, calls[p].type, calls[p].key))
    /\ Goto(p, "readDocs")
    /\ UNCHANGED <<now, blobs, last>>
    /\ SettingsUnused

BeginUpdate(p) ==
    /\ CanBegin(p)
    /\ calls' = [calls EXCEPT ![p] = [@ EXCEPT !.pc = "readDocs",
                                               !.op = "updateVerificationStatus"]]
    /\ UNCHANGED now
    /\ VerificationUnused
    /\ SettingsUnused

\* updateVerificationStatus: documents = await this.getDocuments(restaurantId)
ReadDocs(p) ==
    /\ calls[p].pc = "readDocs"
    /\ calls' = [calls EXCEPT ![p] = [@ EXCEPT !.pc = "writeStatus",
                                               !.snapshot = GetDocuments(verification)]]
    /\ UNCHANGED now
    /\ VerificationUnused
    /\ SettingsUnused

\* faulty variant: the status is computed from the documents stored at write time
StatusToWrite_Reread(snapshot, coll, t) == ComputeStatus(GetDocuments(coll), t)

\* what updateVerificationStatus hands to setDoc: computed from its own snapshot
StatusToWrite(snapshot, coll, t) == ComputeStatus(snapshot, t)

\* updateVerificationStatus: the forEach, then setDoc(status)
WriteStatus(p) ==
    /\ calls[p].pc = "writeStatus"
    /\ verification' = SetDoc(verification, StatusId,
                              StatusToWrite(calls[p].snapshot, verification, now))
    /\ last' = Done("writeStatus", calls[p].snapshot, NoError, calls[p].op)
    /\ Finish(p, calls[p].op)
    /\ UNCHANGED <<now, blobs>>
    /\ SettingsUnused

\* getVerificationStatus: getDoc(status)
BeginGetStatus(p) ==
    /\ CanBegin(p)
    /\ calls' = [calls EXCEPT ![p] =
                    IF HasStatus(verification)
                    THEN [IdleCall(calls[p].completed + 1) EXCEPT !.op = "getVerificationStatus"]
                    ELSE [@ EXCEPT !.pc = "writeDefault", !.op = "getVerificationStatus"]]
    /\ UNCHANGED now
    /\ VerificationUnused
    /\ SettingsUnused

\* getVerificationStatus: setDoc(statusDoc.ref, defaultStatus)
WriteDefault(p) ==
    /\ calls[p].pc = "writeDefault"
    /\ verification' = SetDoc(verification, StatusId, DefaultStatus(now))
    /\ last' = Done("writeDefault", <<>>, NoError, calls[p].op)
    /\ Finish(p, calls[p].op)
    /\ UNCHANGED <<now, blobs>>
    /\ SettingsUnused

\* deleteDocument: deleteObject(storageRef); it throws when the blob is gone
BeginDelete(p, document) ==
    /\ CanBegin(p)
    /\ IF document.fileUrl \in blobs
       THEN /\ blobs' = blobs \ {document.fileUrl}
            /\ calls' = [calls EXCEPT ![p] = [@ EXCEPT !.pc = "deleteRecord",
                                                       !.op = "deleteDocument",
                                                       !.document = document.id]]
       ELSE /\ blobs' = blobs
            /\ Finish(p, "deleteDocument")
    /\ UNCHANGED <<now, verification, last>>
    /\ SettingsUnused

\* deleteDocument: deleteDoc(record)
DeleteRecord(p) ==
    /\ calls[p].pc = "deleteRecord"
    /\ verification' = DeleteDoc(verification, calls[p].document)
    /\ Goto(p, "readDocs")
    /\ UNCHANGED <<now, blobs, last>>
    /\ SettingsUnused

InitRace ==
    /\ InitCommon
    /\ now = 1
    /\ Seeded(MaxRaceDocs, FALSE)

NextRace ==
    \/ \E p \in Callers, type \in RaceTypes : BeginUpload(p, type)
    \/ \E p \in Callers : UploadSetRecord(p)
    \/ \E p \in Callers : BeginUpdate(p)
    \/ \E p \in Callers : ReadDocs(p)
    \/ \E p \in Callers : WriteStatus(p)
    \/ \E p \in Callers : BeginGetStatus(p)
    \/ \E p \in Callers : WriteDefault(p)
    \/ \E p \in Callers, id \in DocIds :
          /\ id \in DOMAIN verification
          /\ BeginDelete(p, verification[id])
    \/ \E p \in Callers : DeleteRecord(p)

SpecRace == InitRace /\ [][NextRace]_vars

\* --------------------------------------------------- settings page -------
VerificationIdle == UNCHANGED <<verification, blobs, calls>>

\* updateDoc(ref, data): fails when the record does not exist, else merges the
\* given fields into it
UpdateDocAllowed(record) == record.exists

UpdateDoc(record, data) ==
    [exists |-> TRUE,
     data |-> [f \in DOMAIN record.data \cup DOMAIN data |->
                  IF f \in DOMAIN data THEN data[f] ELSE record.data[f]]]

WithField(rec, name, value) ==
    [f \in DOMAIN rec \cup {name} |-> IF f = name THEN value ELSE rec[f]]

\* the required attribute of every input of the form
FormValid(settings) == \A f \in FormFields : f \in DOMAIN settings /\ settings[f] # ""

\* useEffect: fetchSettings
FetchSettings(ok) ==
    /\ page.loading
    /\ page' = [page EXCEPT
                  !.settings = IF ok /\ userDoc.exists THEN userDoc.data ELSE @,
                  !.error = IF ok THEN @ ELSE "Failed to load restaurant settings",
                  !.loading = FALSE]
    /\ UNCHANGED <<now, userDoc, last>>
    /\ VerificationIdle

HandleChange(name, value) ==
    /\ ~page.loading
    /\ page.settings # WithField(page.settings, name, value)
    /\ page' = [page EXCEPT !.settings = WithField(@, name, value)]
    /\ UNCHANGED <<now, userDoc, last>>
    /\ VerificationIdle

\* handleSubmit; new Date() reads a clock that has advanced since the last submit
HandleSubmit(ok) ==
    LET data == WithField(page.settings, "lastUpdated", now + 1)
        stored == ok /\ UpdateDocAllowed(userDoc)
    IN /\ ~page.loading
       /\ ~page.saving
       /\ FormValid(page.settings)
       /\ now < MaxClock
       /\ now' = now + 1
       /\ userDoc' = IF stored THEN UpdateDoc(userDoc, data) ELSE userDoc
       /\ page' = [page EXCEPT
                     !.saving = FALSE,
                     !.error = IF stored THEN "" ELSE "Failed to update settings",
                     !.success = IF stored THEN "Settings updated successfully" ELSE ""]
       /\ last' = [op |-> "handleSubmit", arg |-> page.settings,
                   error |-> IF ~ok THEN "network"
                             ELSE IF stored THEN NoError ELSE "not-found",
                   result |-> page.error, pre |-> userDoc]
       /\ VerificationIdle

\* the page is left and opened again
Remount ==
    /\ ~page.loading
    /\ page' = InitialPage
    /\ UNCHANGED <<now, userDoc, last>>
    /\ VerificationIdle

\* users/{uid} as the sign-up left it: missing, the account fields only, or a
\* full earlier settings record
SeedUsers ==
    {NoDoc,
     [exists |-> TRUE, data |-> [f \in {"email"} |-> "e"]],
     [exists |-> TRUE,
      data |-> [f \in FormFields \cup {"email", "lastUpdated"} |->
                   IF f = "email" THEN "e" ELSE IF f = "lastUpdated" THEN 0 ELSE "a"]]}

InitSettings ==
    /\ now = 0
    /\ last = NoCall
    /\ calls = [p \in Callers |-> IdleCall(0)]
    /\ verification = <<>>
    /\ blobs = {}
    /\ page = InitialPage
    /\ userDoc \in SeedUsers

NextSettings ==
    \/ \E ok \in BOOLEAN : FetchSettings(ok)
    \/ \E name \in FormFields : HandleChange(name, "b")
    \/ \E ok \in BOOLEAN : HandleSubmit(ok)
    \/ Remount

SpecSettings == InitSettings /\ [][NextSettings]_vars

\* ------------------------------------------------------------ claims -----
\* the document records of a collection, read without the service's filter
RecordsOf(coll) == {coll[k] : k \in DOMAIN coll \ {StatusId}}

Succeeded(op) == last.op = op /\ last.error = NoError

FullyApproved(D) ==
    /\ \A t \in RequiredSet : \E d \in D : d.type = t /\ d.status = "approved"
    /\ ~\E d \in D : d.status = "rejected"

\* C1: updateVerificationStatus stores and returns isVerified = TRUE exactly when
\* every required type has an approved document and no document is rejected.
C1_VerifiedIff ==
    Succeeded("updateVerificationStatus") =>
        /\ HasStatus(verification)
        /\ verification[StatusId].isVerified = FullyApproved(RecordsOf(last.pre.verification))
        /\ last.result.isVerified = FullyApproved(RecordsOf(last.pre.verification))

\* C1 witness: a rejected document beside an approved one of the same type, every
\* required type approved, and the recomputation stored isVerified = FALSE.
C1_Witness ==
    /\ Succeeded("updateVerificationStatus")
    /\ LET D == RecordsOf(last.pre.verification)
       IN /\ \A t \in RequiredSet : \E d \in D : d.type = t /\ d.status = "approved"
          /\ \E a, r \in D : a.type = r.type /\ a.status = "approved" /\ r.status = "rejected"
    /\ verification[StatusId].isVerified = FALSE

\* C2: every stored status singleton has isVerified = (no pending and no rejected).
C2_StatusInvariant ==
    HasStatus(verification) =>
        verification[StatusId].isVerified =
            (/\ verification[StatusId].pendingDocuments = <<>>
             /\ verification[StatusId].rejectedDocuments = <<>>)

\* C2 witness: a recomputation stored a verified status with nothing pending.
C2_Witness ==
    /\ Succeeded("updateVerificationStatus")
    /\ verification[StatusId].isVerified
    /\ verification[StatusId].pendingDocuments = <<>>

\* C3: getVerificationStatus without a stored status returns the default and leaves
\* exactly it stored; with a stored status it returns that and writes nothing.
C3_LazyDefault ==
    Succeeded("getVerificationStatus") =>
        IF ~HasStatus(last.pre.verification)
        THEN /\ last.result.isVerified = FALSE
             /\ last.result.documentsSubmitted = FALSE
             /\ last.result.pendingDocuments = <<"business_license", "food_permit", "identity">>
             /\ last.result.rejectedDocuments = <<>>
             /\ HasStatus(verification)
             /\ verification[StatusId] = last.result
             /\ RecordsOf(verification) = RecordsOf(last.pre.verification)
        ELSE /\ last.result = last.pre.verification[StatusId]
             /\ verification = last.pre.verification

\* C3 witness: a restaurant with documents but no status record was asked its status.
C3_Witness ==
    /\ Succeeded("getVerificationStatus")
    /\ ~HasStatus(last.pre.verification)
    /\ RecordsOf(last.pre.verification) # {}
    /\ HasStatus(verification)

\* C4: after uploading an identity document to a restaurant without documents,
\* getDocuments returns exactly that pending identity record; the status singleton
\* is never among the records getDocuments returns.
C4_UploadThenList ==
    /\ (/\ Succeeded("uploadDocument")
        /\ last.arg = "identity"
        /\ RecordsOf(last.pre.verification) = {})
       => /\ Len(GetDocuments(verification)) = 1
          /\ GetDocuments(verification)[1].type = "identity"
          /\ GetDocuments(verification)[1].status = "pending"
          /\ GetDocuments(verification)[1] = last.result
    /\ \A i \in 1..Len(GetDocuments(verification)) :
          /\ GetDocuments(verification)[i] \in RecordsOf(verification)
          /\ HasStatus(verification) => GetDocuments(verification)[i] # verification[StatusId]
    /\ Succeeded("getDocuments") =>
          /\ Len(last.result) = Cardinality(RecordsOf(verification))
          /\ \A i \in 1..Len(last.result) : last.result[i] \in RecordsOf(verification)

\* C4 witness: the identity upload happened where a status singleton was stored before.
C4_Witness ==
    /\ Succeeded("uploadDocument")
    /\ last.arg = "identity"
    /\ RecordsOf(last.pre.verification) = {}
    /\ HasStatus(last.pre.verification)
    /\ HasStatus(verification)

OnlyApprovedOfItsType(coll, id) ==
    /\ id \in DOMAIN coll
    /\ coll[id].status = "approved"
    /\ \A d \in RecordsOf(coll) :
          (d.type = coll[id].type /\ d.status = "approved") => d.id = id

DeletedOnlyApproved ==
    /\ Succeeded("deleteDocument")
    /\ HasStatus(last.pre.verification)
    /\ last.pre.verification[StatusId].isVerified
    /\ OnlyApprovedOfItsType(last.pre.verification, last.arg)

DeletedType == last.pre.verification[last.arg].type

InArray(x, arr) == \E i \in 1..Len(arr) : arr[i] = x

\* C5 as stated: deleting the only approved document of any type t of a verified
\* restaurant leaves isVerified = FALSE and t pending.
C5_AsStated ==
    DeletedOnlyApproved =>
        /\ verification[StatusId].isVerified = FALSE
        /\ InArray(DeletedType, verification[StatusId].pendingDocuments)

\* C5 amended: the same, for t one of the three required types.
C5_RequiredType ==
    (DeletedOnlyApproved /\ DeletedType \in RequiredSet) =>
        /\ verification[StatusId].isVerified = FALSE
        /\ InArray(DeletedType, verification[StatusId].pendingDocuments)

\* C5 witness: the only approved identity document of a verified restaurant was deleted.
C5_Witness ==
    /\ DeletedOnlyApproved
    /\ DeletedType = "identity"
    /\ verification[StatusId].isVerified = FALSE

CountOf(D, t, s) == Cardinality({d \in D : d.type = t /\ d.status = s})

CountIn(arr, t) == Cardinality({i \in 1..Len(arr) : arr[i] = t})

\* C7: after a successful uploadDocument or deleteDocument the stored status is the
\* recomputation over the current records: pending = required types without an
\* approved document, rejected = one entry per rejected document, documentsSubmitted
\* iff a record exists.
C7_FullRecompute ==
    (Succeeded("uploadDocument") \/ Succeeded("deleteDocument")) =>
        /\ HasStatus(verification)
        /\ LET st == verification[StatusId]
               D == RecordsOf(verification)
           IN /\ \A t \in RequiredSet :
                    InArray(t, st.pendingDocuments) <=> CountOf(D, t, "approved") = 0
              /\ \A i \in 1..Len(st.pendingDocuments) : st.pendingDocuments[i] \in RequiredSet
              /\ \A t \in DocTypes : CountIn(st.rejectedDocuments, t) = CountOf(D, t, "rejected")
              /\ st.documentsSubmitted = (D # {})
              /\ st.isVerified = FullyApproved(D)

\* C7 witness: an upload completed beside two rejected documents of one type.
C7_Witness ==
    /\ Succeeded("uploadDocument")
    /\ \E t \in DocTypes : CountOf(RecordsOf(verification), t, "rejected") = 2
    /\ Len(verification[StatusId].rejectedDocuments) >= 2

\* C9: deleteDocument deletes the blob, then the record, then recomputes, without
\* compensation: a failed blob deletion changes nothing; a failed record deletion
\* leaves the record stored, its blob gone, the status untouched, the error thrown.
C9_PartialFailure ==
    /\ (last.op = "deleteDocument" /\ last.error = "deleteObject") =>
          /\ verification = last.pre.verification
          /\ blobs = last.pre.blobs
    /\ (last.op = "deleteDocument" /\ last.error = "deleteDoc") =>
          /\ verification = last.pre.verification
          /\ last.arg \in DOMAIN verification
          /\ verification[last.arg].fileUrl \in last.pre.blobs
          /\ verification[last.arg].fileUrl \notin blobs
    /\ (last.op = "deleteDocument" /\ last.error \in {"getDocs", "setStatus"}) =>
          /\ last.arg \notin DOMAIN verification
          /\ HasStatus(verification) = HasStatus(last.pre.verification)
          /\ HasStatus(verification) => verification[StatusId] = last.pre.verification[StatusId]

\* C9 witness: the record deletion failed after the blob was deleted.
C9_Witness ==
    /\ last.op = "deleteDocument"
    /\ last.error = "deleteDoc"
    /\ last.arg \in DOMAIN verification
    /\ verification[last.arg].fileUrl \notin blobs
    /\ HasStatus(verification)

\* the stored status is what a recomputation over the records D gives
StatusMatches(st, D) ==
    /\ \A t \in RequiredSet : InArray(t, st.pendingDocuments) <=> CountOf(D, t, "approved") = 0
    /\ \A t \in DocTypes : CountIn(st.rejectedDocuments, t) = CountOf(D, t, "rejected")
    /\ st.documentsSubmitted = (D # {})
    /\ st.isVerified = FullyApproved(D)

ElementsOf(arr) == {arr[i] : i \in 1..Len(arr)}

AllDone == \A p \in Callers : calls[p].pc = "idle" /\ calls[p].completed = CallsPerCaller

Recomputing == {"uploadDocument", "updateVerificationStatus", "deleteDocument"}

\* C8: overlapping recomputations are not coordinated: whichever writes last stores
\* the status of its own, possibly older, snapshot of the documents.
C8_LastWriterWins ==
    last.op = "writeStatus" =>
        /\ HasStatus(verification)
        /\ StatusMatches(verification[StatusId], ElementsOf(last.arg))

\* C8 witness: both recomputing calls are complete and the stored status, written
\* from a snapshot that is not the current document set, differs from the
\* recomputation over the current documents.
C8_Witness ==
    /\ AllDone
    /\ \A p \in Callers : calls[p].op \in Recomputing
    /\ last.op = "writeStatus"
    /\ ElementsOf(last.arg) # RecordsOf(verification)
    /\ ~StatusMatches(verification[StatusId], RecordsOf(verification))

\* C10: the lazy default of getVerificationStatus never replaces a status written by
\* a recomputation; once every call is complete the stored status does not say
\* documentsSubmitted = FALSE while a document record exists.
C10_DefaultNeverReplaces ==
    /\ last.op = "writeDefault" =>
          (~HasStatus(last.pre.verification) \/ last.pre.writer = "writeDefault")
    /\ (AllDone /\ last.op = "writeDefault" /\ RecordsOf(verification) # {}) =>
          verification[StatusId].documentsSubmitted

\* C6: a valid settings submit on a page that loaded without error, the store
\* reachable, round-trips whether or not a record existed: the stored record is
\* exactly the submitted values plus a later lastUpdated.
C6_SubmitRoundTrips ==
    (last.op = "handleSubmit" /\ last.error # "network" /\ last.result = "") =>
        /\ userDoc.exists
        /\ DOMAIN userDoc.data = DOMAIN last.arg \cup {"lastUpdated"}
        /\ \A f \in DOMAIN last.arg \ {"lastUpdated"} : userDoc.data[f] = last.arg[f]
        /\ (last.pre.exists /\ "lastUpdated" \in DOMAIN last.pre.data) =>
              userDoc.data.lastUpdated > last.pre.data.lastUpdated

====
